---- MODULE Spec2Model ----
(***************************************************************************)
(* cpp_podlove_convert.py: conversion of a whisper.cpp JSON transcript     *)
(* into a Podlove Web Player transcript.                                   *)
(*                                                                         *)
(* The model follows one invocation of one of the three entry points of    *)
(* the script (cli, convert, is_valid_whisper_json) over a small file      *)
(* system.  A file's text is kept as the syntax tree the text spells,      *)
(* with every string literal kept as the sequence of the units written     *)
(* between its quotes: a unit is one character ("a", " ", ",", the raw     *)
(* line feed "\n") or one escape sequence (the two characters "\\n").      *)
(***************************************************************************)
EXTENDS Integers, Sequences, FiniteSets, TLC

VARIABLES
    mode,        \* entry point of this run: "cli", "convert" or "validate"
    args,        \* the arguments: source, dest, force, speaker_id, speaker
    fs,          \* the file system: path -> file
    fs0,         \* the file system as it was when the run started
    pc,          \* position of the run in the code
    caller,      \* who called load_transcript: "validator", "convert", "none"
    handles,     \* the file objects currently open: [path, how]
    json_data,   \* get_json: the text read, newlines removed, or False
    json_obj,    \* is_valid_whisper_json: the parsed transcript
    _source,     \* convert: the parsed transcript
    _target,     \* convert: the entries built so far
    idx,         \* convert: position of the for loop in the transcription
    err,         \* the exception that ended the run, if any
    exit_code,   \* cli: the exit status of the process, -1 while running
    returned,    \* is_valid_whisper_json: the value returned, or "none"
    logged       \* convert: LOGGER.info("Converted transcription!") was issued

vars == <<mode, args, fs, fs0, pc, caller, handles, json_data, json_obj,
          _source, _target, idx, err, exit_code, returned, logged>>

(***************************************************************************)
(* Bounds of the model.                                                    *)
(***************************************************************************)
\* longest transcription
MaxSegs == 2
\* longest timecode and longest text, in units
MaxLen == 2

(***************************************************************************)
(* JSON values, as json.loads builds them and as a file's text spells them.*)
(***************************************************************************)
Str(s) == [t |-> "str", s |-> s]
Num(n) == [t |-> "num", n |-> n]
Null == [t |-> "null"]
List(xs) == [t |-> "list", xs |-> xs]
Map(m) == [t |-> "map", m |-> m]

\* A key left out of a mapping that MapFrom builds.
Absent == [t |-> "absent"]
MapFrom(rec) == Map([k \in {j \in DOMAIN rec : rec[j] # Absent} |-> rec[k]])

\* Python's truth value of a JSON value (bool(x)).
Truthy(v) ==
    CASE v.t = "str" -> v.s # <<>>
      [] v.t = "num" -> v.n # 0
      [] v.t = "null" -> FALSE
      [] v.t = "list" -> v.xs # <<>>
      [] v.t = "map" -> DOMAIN v.m # {}

\* Subscript as x.get(key) would be: None for a key that is missing.
SubscriptGet(v, key) ==
    IF v.t # "map" THEN [ok |-> FALSE, exc |-> "TypeError"]
    ELSE IF key \notin DOMAIN v.m THEN [ok |-> TRUE, val |-> Null]
    ELSE [ok |-> TRUE, val |-> v.m[key]]

\* x[key] of Python: the value, or the exception the subscript raises.
Subscript(v, key) ==
    IF v.t # "map" THEN [ok |-> FALSE, exc |-> "TypeError"]
    ELSE IF key \notin DOMAIN v.m THEN [ok |-> FALSE, exc |-> "KeyError"]
    ELSE [ok |-> TRUE, val |-> v.m[key]]

\* Replace as s.replace(old, new, 1) would be: the first old only.
ReplaceFirst(s, old, new) ==
    [i \in 1..Len(s) |->
        IF s[i] = old /\ \A j \in 1..(i - 1) : s[j] # old THEN new ELSE s[i]]

\* s.replace(old, new) for one-character old and new.
Replace(s, old, new) == [i \in 1..Len(s) |-> IF s[i] = old THEN new ELSE s[i]]

\* s.replace("\n", "") on one string literal of a text.
RemoveNewlines(s) == SelectSeq(s, LAMBDA c : c # "\n")

(***************************************************************************)
(* The text of a file.  syntax "ok": the text spells the tree doc;         *)
(* "broken": the text is no JSON whatever is done to its newlines;         *)
(* "empty": the text is empty (a file just opened with "w").               *)
(***************************************************************************)
Text(doc) == [syntax |-> "ok", doc |-> doc]
Broken == [syntax |-> "broken"]
EmptyText == [syntax |-> "empty"]
\* get_json's return value on IOError, and json_data before get_json ran.
PyFalse == [syntax |-> "False"]
NoData == [syntax |-> "unset"]

HasRawNewline(s) == \E i \in 1..Len(s) : s[i] = "\n"
\* The decoder of string literals: an escape sequence yields its character.
DecodeString(s) == [i \in 1..Len(s) |-> IF s[i] = "\\n" THEN "\n" ELSE s[i]]
\* The encoder of string literals: a line feed is written as its escape sequence.
EncodeString(s) == [i \in 1..Len(s) |-> IF s[i] = "\n" THEN "\\n" ELSE s[i]]

RECURSIVE MapStrings(_, _)
\* The tree v with an operation applied to each of its string literals.
MapStrings(v, op) ==
    CASE v.t = "str" ->
           Str(CASE op = "strip" -> RemoveNewlines(v.s)
                 [] op = "decode" -> DecodeString(v.s)
                 [] op = "encode" -> EncodeString(v.s))
      [] v.t = "list" -> List([i \in 1..Len(v.xs) |-> MapStrings(v.xs[i], op)])
      [] v.t = "map" -> Map([k \in DOMAIN v.m |-> MapStrings(v.m[k], op)])
      [] OTHER -> v

RECURSIVE AnyRawNewline(_)
\* Whether some string literal of the tree v holds a raw line feed.
AnyRawNewline(v) ==
    CASE v.t = "str" -> HasRawNewline(v.s)
      [] v.t = "list" -> \E i \in 1..Len(v.xs) : AnyRawNewline(v.xs[i])
      [] v.t = "map" -> \E k \in DOMAIN v.m : AnyRawNewline(v.m[k])
      [] OTHER -> FALSE

\* text.replace("\n", ""): newlines between tokens are not kept in the tree,
\* newlines inside string literals are units of those literals.
StripNewlines(text) ==
    IF text.syntax = "ok" THEN Text(MapStrings(text.doc, "strip")) ELSE text

\* json.loads(data): the value, or the exception raised.  A raw line feed in
\* a string literal is an invalid control character (strict parsing).
json_loads(data) ==
    IF data.syntax = "False" THEN [ok |-> FALSE, exc |-> "TypeError"]
    ELSE IF data.syntax # "ok" THEN [ok |-> FALSE, exc |-> "JSONDecodeError"]
    ELSE IF AnyRawNewline(data.doc)
         THEN [ok |-> FALSE, exc |-> "JSONDecodeError"]
    ELSE [ok |-> TRUE, val |-> MapStrings(data.doc, "decode")]

\* json.dump(value, f, indent=4): the text written.
json_dump(value) == Text(MapStrings(value, "encode"))

(***************************************************************************)
(* Files.                                                                  *)
(***************************************************************************)
NoFile == [kind |-> "absent"]
Directory == [kind |-> "dir"]
\* A regular file.  perm "rw": the file can be read; "none": the process has
\* no read permission on it; "ioerror": it opens, and reading it fails.
RegularFile(perm, content) == [kind |-> "file", perm |-> perm, content |-> content]

\* os.path.exists(path)
Exists(f) == f.kind # "absent"
\* os.access(path, os.R_OK): a directory is readable too
Readable(f) == f.kind = "dir" \/ (f.kind = "file" /\ f.perm # "none")
\* open(path, "r") succeeds
OpensForReading(f) == f.kind = "file" /\ f.perm # "none"
\* json_file.read() succeeds
Reads(f) == f.perm = "rw"
\* open(path, "w") succeeds: the file is created or truncated
OpensForWriting(f) == f.kind # "dir"
\* The file open(path, "w") leaves: a new file, or the old one, emptied.
Truncated(f) ==
    IF f.kind = "file" THEN [f EXCEPT !.content = EmptyText]
    ELSE RegularFile("rw", EmptyText)

(***************************************************************************)
(* convert: one entry of the target (lines 33-43).                         *)
(***************************************************************************)
Raise(exc) == [ok |-> FALSE, exc |-> exc]
Value(v) == [ok |-> TRUE, val |-> v]

\* v[k1][k2]
Subscript2(v, k1, k2) ==
    LET a == Subscript(v, k1) IN IF a.ok THEN Subscript(a.val, k2) ELSE a

\* r.replace(",", "."), r the outcome of the subscripts before it
ReplaceComma(r) ==
    IF ~r.ok THEN r
    ELSE IF r.val.t # "str" THEN Raise("AttributeError")
    ELSE Value(Str(Replace(r.val.s, ",", ".")))

\* The five looked-up fields of the dict display, in the order Python
\* evaluates them.
EntryFields(_entry) ==
    << ReplaceComma(Subscript2(_entry, "timestamps", "from")),
       Subscript2(_entry, "offsets", "from"),
       ReplaceComma(Subscript2(_entry, "timestamps", "to")),
       Subscript2(_entry, "offsets", "to"),
       Subscript(_entry, "text") >>

\* Entry with the values of speaker and voice taken one for the other.
EntrySwapped(_entry, speaker_id, speaker) ==
    LET f == EntryFields(_entry)
        bad == {i \in 1..Len(f) : ~f[i].ok}
    IN  IF bad # {}
        THEN f[CHOOSE i \in bad : \A j \in bad : i <= j]
        ELSE Value(Map([start |-> f[1].val,
                        start_ms |-> f[2].val,
                        end |-> f[3].val,
                        end_ms |-> f[4].val,
                        speaker |-> Str(speaker),
                        voice |-> Str(speaker_id),
                        text |-> f[5].val]))

\* The entry appended for _entry, or the first exception its fields raise.
Entry(_entry, speaker_id, speaker) ==
    LET f == EntryFields(_entry)
        bad == {i \in 1..Len(f) : ~f[i].ok}
    IN  IF bad # {}
        THEN f[CHOOSE i \in bad : \A j \in bad : i <= j]
        ELSE Value(Map([start |-> f[1].val,
                        start_ms |-> f[2].val,
                        end |-> f[3].val,
                        end_ms |-> f[4].val,
                        speaker |-> Str(speaker_id),
                        voice |-> Str(speaker),
                        text |-> f[5].val]))

\* The items "for _entry in v" runs over, or the exception iter(v) raises.
Iterate(v) ==
    CASE v.t = "list" -> Value(v.xs)
      [] v.t = "str" -> Value([i \in 1..Len(v.s) |-> Str(<<v.s[i]>>)])
      [] v.t \in {"num", "null"} -> Raise("TypeError")

\* _source["transcription"], iterated (line 30).
Transcription(doc) ==
    LET a == Subscript(doc, "transcription") IN IF a.ok THEN Iterate(a.val) ELSE a

(***************************************************************************)
(* is_valid_whisper_json: the required keys (lines 98-104).                *)
(***************************************************************************)
keys == <<"systeminfo", "model", "transcription">>

\* What the body of the for loop does for _key: "pass", or the exception.
CheckKey(obj, _key) ==
    LET a == Subscript(obj, _key)
    IN  IF ~a.ok THEN a.exc
        ELSE IF ~Truthy(a.val) THEN "TypeError"
        ELSE "pass"

\* The exception lines 98-104 raise on obj, or "pass".
CheckKeys(obj) ==
    LET bad == {i \in 1..Len(keys) : CheckKey(obj, keys[i]) # "pass"}
    IN  IF bad # {}
        THEN CheckKey(obj, keys[CHOOSE i \in bad : \A j \in bad : i <= j])
        ELSE IF ~Truthy(obj) THEN "ValueError"
        ELSE "pass"

\* The ValueError the except clauses of lines 105-110 raise for exc.
\* json.JSONDecodeError is a ValueError.
Wrapped(exc) ==
    [exc |-> "ValueError",
     msg |-> IF exc \in {"TypeError", "ValueError", "JSONDecodeError"}
             THEN "is not a valid JSON whisper.cpp transcript"
             ELSE "failed to load",
     cause |-> exc]

\* An exception raised directly.
Error(exc, msg) == [exc |-> exc, msg |-> msg, cause |-> "none"]
NoError == Error("none", "none")

(***************************************************************************)
(* The inputs drawn: documents, files, arguments.                          *)
(***************************************************************************)
Paths == {"in.json", "out.json"}

\* Sequences over alphabet of length at most n.
Strings(alphabet, n) == UNION {[1..k -> alphabet] : k \in 0..n}

TimecodeUnits == {"0", ",", "."}
TextUnits == {"a", " ", "\n", "\\n"}
Timecodes == Strings(TimecodeUnits, MaxLen)
Texts == Strings(TextUnits, MaxLen)
Offsets == {0, 500, 2000}

Segment(from, to, from_ms, to_ms, text) ==
    Map([timestamps |-> Map([from |-> Str(from), to |-> Str(to)]),
         offsets |-> Map([from |-> Num(from_ms), to |-> Num(to_ms)]),
         text |-> Str(text)])

\* The segment of position i in a transcription whose segments all look alike.
DefaultSegment(i) ==
    Segment(<<"0", ",", "0">>, <<"0", ",", "5">>, 10 * i, 10 * i + 5, <<"a">>)

\* Well-formed segments for position i: every pair of timecodes, every text,
\* every pair of offsets.
RichSegments(i) ==
    {Segment(f, t, 10 * i, 10 * i + 5, <<"a">>) : f \in Timecodes, t \in Timecodes}
    \cup {Segment(<<"0", ",", "0">>, <<"0", ",", "5">>, 10 * i, 10 * i + 5, x) :
            x \in Texts}
    \cup {Segment(<<"0", ",", "0">>, <<"0", ",", "5">>, a, b, <<"a">>) :
            a \in Offsets, b \in Offsets}

\* Segments of every shape for position i: each key and nested key present or
\* not, a sub-object that is null, a timecode that is a number.
ShapeSegments(i) ==
    LET full == DefaultSegment(i).m
        nested(sub, froms) ==
            {Absent, Null}
            \cup {MapFrom([from |-> a, to |-> b]) :
                    a \in froms, b \in {Absent, sub.m.to}}
    IN  {MapFrom([timestamps |-> ts, offsets |-> os, text |-> tx]) :
            ts \in nested(full.timestamps, {Absent, full.timestamps.m.from, Num(0)}),
            os \in nested(full.offsets, {Absent, full.offsets.m.from}),
            tx \in {Absent, full.text}}

\* The segments of a family for position i.
Segments(family, i) ==
    IF family = "rich" THEN RichSegments(i) ELSE ShapeSegments(i)

\* The transcriptions of length n whose segments are the default ones but
\* for position k, drawn from a family of segments.
OneOdd(n, k, family) ==
    {[i \in 1..n |-> IF i = k THEN s ELSE DefaultSegment(i)] :
        s \in Segments(family, k)}

\* The transcriptions of at most MaxSegs segments with at most one segment
\* that is not the default one.
Transcriptions(family) ==
    {<<>>}
    \cup UNION {UNION {OneOdd(n, k, family) : k \in 1..n} : n \in 1..MaxSegs}

Transcript(systeminfo, model, transcription) ==
    Text(MapFrom([systeminfo |-> systeminfo, model |-> model,
                  transcription |-> transcription]))

\* A valid transcript of one segment.
OldTranscript ==
    Transcript(Str(<<"x">>), Str(<<"y">>),
               List(<<Segment(<<"0">>, <<"0">>, 1, 2, <<"a">>)>>))

RichDocs ==
    {Transcript(Str(<<"x">>), Str(<<"y">>), List(l)) : l \in Transcriptions("rich")}

ShapeDocs ==
    {Transcript(Str(<<"x">>), Str(<<"y">>), List(l)) : l \in Transcriptions("shape")}

\* Texts that are no JSON, JSON that is no mapping, and mappings with each
\* required key absent, falsy or truthy.
TopDocs ==
    {Broken, EmptyText, Text(Null), Text(Num(1)), Text(List(<<>>)),
     Text(List(<<Num(1)>>)), Text(Str(<<"a">>))}
    \cup {Transcript(si, mo, tr) :
            si \in {Absent, Str(<<>>), Str(<<"x">>), Str(<<"x", "\n">>)},
            mo \in {Absent, Null, Num(0), Str(<<"y">>)},
            tr \in {Absent, Null, Num(5), Str(<<"a">>), List(<<>>),
                    List(<<DefaultSegment(1)>>),
                    List(<<Segment(<<"0">>, <<"0">>, 1, 2, <<"a", "\n", "a">>)>>)}}

SpeakerIds == {<<"0">>, <<"1">>}
Speakers == {<<"j">>, <<"a", " ", "b">>}

InFiles ==
    {RegularFile("rw", d) : d \in ShapeDocs \cup TopDocs}
    \cup {RegularFile("none", OldTranscript), RegularFile("ioerror", OldTranscript),
          Directory, NoFile}

OutFiles == {NoFile, RegularFile("rw", OldTranscript), Directory}

Arguments(source, dest, force, speaker_id, speaker) ==
    [source |-> source, dest |-> dest, force |-> force,
     speaker_id |-> speaker_id, speaker |-> speaker]

\* convert called on a well-formed transcript, the destination not existing.
InitRich ==
    /\ mode = "convert"
    /\ \E d \in RichDocs :
         fs = [p \in Paths |-> IF p = "in.json" THEN RegularFile("rw", d) ELSE NoFile]
    /\ \E i \in SpeakerIds :
         args = Arguments("in.json", "out.json", FALSE, i, <<"j">>)

\* Any entry point, on files of every kind and documents of every shape.
InitShapes ==
    /\ mode \in {"cli", "convert", "validate"}
    /\ \E f \in InFiles, g \in OutFiles :
         fs = [p \in Paths |-> IF p = "in.json" THEN f ELSE g]
    /\ \E source \in Paths, dest \in Paths, force \in BOOLEAN, s \in Speakers :
         /\ mode = "validate" => dest = "out.json" /\ s = <<"j">>
         /\ mode # "cli" => ~force
         /\ args = Arguments(source, dest, force, <<"0">>, s)

InitLocals ==
    /\ fs0 = fs
    /\ pc = mode
    /\ caller = "none"
    /\ handles = {}
    /\ json_data = NoData
    /\ json_obj = Absent
    /\ _source = Absent
    /\ _target = <<>>
    /\ idx = 0
    /\ err = NoError
    /\ exit_code = -1
    /\ returned = "none"
    /\ logged = FALSE

Init == (InitRich \/ InitShapes) /\ InitLocals

(***************************************************************************)
(* is_valid_whisper_json                                                   *)
(***************************************************************************)
\* The exception exc leaves is_valid_whisper_json.
ValidatorRaises(e) ==
    /\ err' = e
    /\ pc' = "validator_raised"

\* parse_options: parser.parse_args() converts SOURCE with its type
\* function, is_valid_whisper_json (lines 171-177).
ParseArgs ==
    /\ pc = "cli"
    /\ pc' = "validate"
    /\ UNCHANGED <<mode, args, fs, fs0, caller, handles, json_data, json_obj,
                   _source, _target, idx, err, exit_code, returned, logged>>

\* Lines 88-96: the path exists and can be accessed; load_transcript is called.
ValidatorChecksPath ==
    /\ pc = "validate"
    /\ caller' = "validator"
    /\ IF ~Exists(fs[args.source])
       THEN ValidatorRaises(Error("ValueError", "is non-existent"))
       ELSE IF ~Readable(fs[args.source])
       THEN ValidatorRaises(Error("ValueError", "is not readable"))
       ELSE pc' = "get_json" /\ err' = err
    /\ UNCHANGED <<mode, args, fs, fs0, handles, json_data, json_obj,
                   _source, _target, idx, exit_code, returned, logged>>

\* Lines 97-112: the required keys are looked up; the exceptions of the try
\* block are wrapped; the file name is returned.
ValidatorChecksKeys ==
    /\ pc = "check_keys"
    /\ LET exc == CheckKeys(json_obj)
       IN  IF exc # "pass"
           THEN ValidatorRaises(Wrapped(exc)) /\ returned' = returned
           ELSE /\ returned' = args.source
                /\ pc' = "validator_returned"
                /\ err' = err
    /\ UNCHANGED <<mode, args, fs, fs0, caller, handles, json_data, json_obj,
                   _source, _target, idx, exit_code, logged>>

(***************************************************************************)
(* get_json and load_transcript                                            *)
(***************************************************************************)
\* Line 73: open(filename, "r"); an IOError makes get_json return False.
GetJsonOpens ==
    /\ pc = "get_json"
    /\ IF OpensForReading(fs[args.source])
       THEN /\ handles' = handles \cup {[path |-> args.source, how |-> "r"]}
            /\ json_data' = json_data
            /\ pc' = "read"
       ELSE /\ handles' = handles
            /\ json_data' = PyFalse
            /\ pc' = "json_loads"
    /\ UNCHANGED <<mode, args, fs, fs0, caller, json_obj, _source, _target,
                   idx, err, exit_code, returned, logged>>

\* GetJsonReads without the with block: a failing read leaves the file open.
GetJsonReadsLeaking ==
    /\ pc = "read"
    /\ IF Reads(fs[args.source])
       THEN /\ json_data' = StripNewlines(fs[args.source].content)
            /\ handles' = handles
            /\ pc' = "close"
       ELSE /\ json_data' = PyFalse
            /\ handles' = handles
            /\ pc' = "json_loads"
    /\ UNCHANGED <<mode, args, fs, fs0, caller, json_obj, _source, _target,
                   idx, err, exit_code, returned, logged>>

\* Line 74: json_file.read().replace("\n", ""); an IOError leaves the with
\* block, which closes the file, and makes get_json return False.
GetJsonReads ==
    /\ pc = "read"
    /\ IF Reads(fs[args.source])
       THEN /\ json_data' = StripNewlines(fs[args.source].content)
            /\ handles' = handles
            /\ pc' = "close"
       ELSE /\ json_data' = PyFalse
            /\ handles' = handles \ {[path |-> args.source, how |-> "r"]}
            /\ pc' = "json_loads"
    /\ UNCHANGED <<mode, args, fs, fs0, caller, json_obj, _source, _target,
                   idx, err, exit_code, returned, logged>>

\* Lines 73-75: the with block is left, the file closed, json_data returned.
GetJsonCloses ==
    /\ pc = "close"
    /\ handles' = handles \ {[path |-> args.source, how |-> "r"]}
    /\ pc' = "json_loads"
    /\ UNCHANGED <<mode, args, fs, fs0, caller, json_data, json_obj, _source,
                   _target, idx, err, exit_code, returned, logged>>

\* Line 61: json.loads(get_json(filename)), returned to the caller; an
\* exception goes to the caller's except clauses (is_valid_whisper_json) or
\* ends the call (convert).
LoadTranscript ==
    /\ pc = "json_loads"
    /\ LET transcript == json_loads(json_data)
       IN  IF caller = "validator"
           THEN /\ IF transcript.ok
                   THEN json_obj' = transcript.val /\ pc' = "check_keys" /\ err' = err
                   ELSE json_obj' = json_obj /\ ValidatorRaises(Wrapped(transcript.exc))
                /\ _source' = _source
           ELSE /\ IF transcript.ok
                   THEN _source' = transcript.val /\ pc' = "for" /\ err' = err
                   ELSE /\ _source' = _source
                        /\ pc' = "raised"
                        /\ err' = Error(transcript.exc, "load_transcript")
                /\ json_obj' = json_obj
    /\ UNCHANGED <<mode, args, fs, fs0, caller, handles, json_data, _target,
                   idx, exit_code, returned, logged>>

(***************************************************************************)
(* convert                                                                 *)
(***************************************************************************)
\* ConvertStarts with the destination opened before the source is loaded.
ConvertStartsTruncating ==
    /\ pc = "convert"
    /\ caller' = "convert"
    /\ _target' = <<>>
    /\ pc' = "get_json"
    /\ fs' = IF OpensForWriting(fs[args.dest])
             THEN [fs EXCEPT ![args.dest] = Truncated(fs[args.dest])]
             ELSE fs
    /\ UNCHANGED <<mode, args, fs0, handles, json_data, json_obj, _source,
                   idx, err, exit_code, returned, logged>>

\* Lines 28-29: _target = [], load_transcript is called.
ConvertStarts ==
    /\ pc = "convert"
    /\ caller' = "convert"
    /\ _target' = <<>>
    /\ pc' = "get_json"
    /\ UNCHANGED <<mode, args, fs, fs0, handles, json_data, json_obj, _source,
                   idx, err, exit_code, returned, logged>>

\* Line 30: _source["transcription"] is looked up and the loop entered.
ConvertFor ==
    /\ pc = "for"
    /\ IF Transcription(_source).ok
       THEN pc' = "loop" /\ idx' = 1 /\ err' = err
       ELSE /\ pc' = "raised"
            /\ idx' = idx
            /\ err' = Error(Transcription(_source).exc, "transcription")
    /\ UNCHANGED <<mode, args, fs, fs0, caller, handles, json_data, json_obj,
                   _source, _target, exit_code, returned, logged>>

\* ConvertEntry with the entry put in front of the target (insert(0, ...)).
ConvertEntryPrepending ==
    /\ pc = "loop"
    /\ idx <= Len(Transcription(_source).val)
    /\ LET e == Entry(Transcription(_source).val[idx], args.speaker_id, args.speaker)
       IN  IF e.ok
           THEN /\ _target' = <<e.val>> \o _target
                /\ idx' = idx + 1
                /\ pc' = pc
                /\ err' = err
           ELSE /\ _target' = _target
                /\ idx' = idx
                /\ pc' = "raised"
                /\ err' = Error(e.exc, "entry")
    /\ UNCHANGED <<mode, args, fs, fs0, caller, handles, json_data, json_obj,
                   _source, exit_code, returned, logged>>

\* Lines 30-43: one pass of the loop.
ConvertEntry ==
    /\ pc = "loop"
    /\ idx <= Len(Transcription(_source).val)
    /\ LET e == Entry(Transcription(_source).val[idx], args.speaker_id, args.speaker)
       IN  IF e.ok
           THEN /\ _target' = Append(_target, e.val)
                /\ idx' = idx + 1
                /\ pc' = pc
                /\ err' = err
           ELSE /\ _target' = _target
                /\ idx' = idx
                /\ pc' = "raised"
                /\ err' = Error(e.exc, "entry")
    /\ UNCHANGED <<mode, args, fs, fs0, caller, handles, json_data, json_obj,
                   _source, exit_code, returned, logged>>

\* Line 45: open(destination, "w") creates or truncates the file.
ConvertOpens ==
    /\ pc = "loop"
    /\ idx > Len(Transcription(_source).val)
    /\ IF OpensForWriting(fs[args.dest])
       THEN /\ fs' = [fs EXCEPT ![args.dest] = Truncated(fs[args.dest])]
            /\ handles' = handles \cup {[path |-> args.dest, how |-> "w"]}
            /\ pc' = "dump"
            /\ err' = err
       ELSE /\ fs' = fs
            /\ handles' = handles
            /\ pc' = "raised"
            /\ err' = Error("IOError", "open")
    /\ UNCHANGED <<mode, args, fs0, caller, json_data, json_obj, _source,
                   _target, idx, exit_code, returned, logged>>

\* Line 46: json.dump(_target, f, indent=4); a failing write leaves a part
\* of the text in the file, and the with block closes it.
ConvertDumps ==
    /\ pc = "dump"
    /\ \E written \in BOOLEAN :
         IF written
         THEN /\ fs' = [fs EXCEPT ![args.dest].content = json_dump(List(_target))]
              /\ handles' = handles
              /\ pc' = "written"
              /\ err' = err
         ELSE /\ fs' = [fs EXCEPT ![args.dest].content = Broken]
              /\ handles' = handles \ {[path |-> args.dest, how |-> "w"]}
              /\ pc' = "raised"
              /\ err' = Error("IOError", "dump")
    /\ UNCHANGED <<mode, args, fs0, caller, json_data, json_obj, _source,
                   _target, idx, exit_code, returned, logged>>

\* Lines 45-47: the with block is left, the file closed, success logged.
ConvertCloses ==
    /\ pc = "written"
    /\ handles' = handles \ {[path |-> args.dest, how |-> "w"]}
    /\ logged' = TRUE
    /\ pc' = "converted"
    /\ UNCHANGED <<mode, args, fs, fs0, caller, json_data, json_obj, _source,
                   _target, idx, err, exit_code, returned>>

(***************************************************************************)
(* parse_options, main, cli                                                *)
(***************************************************************************)
\* Exit(code): sys.exit(code), or the interpreter ending.
Exit(code) ==
    /\ exit_code' = code
    /\ pc' = "exited"

\* Line 177: argparse reports the ValueError of a type function as a usage
\* error and exits with status 2.
ArgparseError ==
    /\ mode = "cli"
    /\ pc = "validator_raised"
    /\ Exit(2)
    /\ UNCHANGED <<mode, args, fs, fs0, caller, handles, json_data, json_obj,
                   _source, _target, idx, err, returned, logged>>

\* ParseOptionsChecks without the check of an existing destination.
ParseOptionsChecksOverwriting ==
    /\ mode = "cli"
    /\ pc = "validator_returned"
    /\ IF returned = args.dest
       THEN Exit(1)
       ELSE IF \E i \in 1..Len(args.speaker) : args.speaker[i] = " "
       THEN Exit(1)
       ELSE pc' = "main" /\ exit_code' = exit_code
    /\ UNCHANGED <<mode, args, fs, fs0, caller, handles, json_data, json_obj,
                   _source, _target, idx, err, returned, logged>>

\* Lines 179-195: the checks of source, destination and speaker.
ParseOptionsChecks ==
    /\ mode = "cli"
    /\ pc = "validator_returned"
    /\ IF returned = args.dest
       THEN Exit(1)
       ELSE IF Exists(fs[args.dest]) /\ ~args.force
       THEN Exit(1)
       ELSE IF \E i \in 1..Len(args.speaker) : args.speaker[i] = " "
       THEN Exit(1)
       ELSE pc' = "main" /\ exit_code' = exit_code
    /\ UNCHANGED <<mode, args, fs, fs0, caller, handles, json_data, json_obj,
                   _source, _target, idx, err, returned, logged>>

\* Lines 221-229 and 198-211: cli sets the log level and calls main, which
\* calls convert.
Main ==
    /\ pc = "main"
    /\ pc' = "convert"
    /\ UNCHANGED <<mode, args, fs, fs0, caller, handles, json_data, json_obj,
                   _source, _target, idx, err, exit_code, returned, logged>>

\* Lines 232-233: cli() returns, or an exception leaves it: the interpreter
\* exits with status 0, or prints the traceback and exits with status 1.
CliExits ==
    /\ mode = "cli"
    /\ pc \in {"converted", "raised"}
    /\ Exit(IF pc = "converted" THEN 0 ELSE 1)
    /\ UNCHANGED <<mode, args, fs, fs0, caller, handles, json_data, json_obj,
                   _source, _target, idx, err, returned, logged>>

Next ==
    \/ ParseArgs
    \/ ValidatorChecksPath
    \/ ValidatorChecksKeys
    \/ GetJsonOpens
    \/ GetJsonReads
    \/ GetJsonCloses
    \/ LoadTranscript
    \/ ConvertStarts
    \/ ConvertFor
    \/ ConvertEntry
    \/ ConvertOpens
    \/ ConvertDumps
    \/ ConvertCloses
    \/ ArgparseError
    \/ ParseOptionsChecks
    \/ Main
    \/ CliExits

Spec == Init /\ [][Next]_vars

(***************************************************************************)
(* What the properties speak of.                                           *)
(***************************************************************************)
\* convert has reported success.
ConvertSucceeded == pc = "converted" \/ (pc = "exited" /\ exit_code = 0)

\* convert was called and has ended.
ConvertEnded == caller = "convert" /\ pc \in {"converted", "raised", "exited"}

\* convert has failed while reading, parsing or transforming the source.
ConvertFailedBeforeWriting ==
    err.msg \in {"load_transcript", "transcription", "entry"}

\* The document the source file held when the run started, each string
\* literal read as the characters it spells: an escape sequence as its
\* character, a raw line feed as a line feed.
SourceDocument == MapStrings(fs0[args.source].content.doc, "decode")

\* The source file held a mapping whose transcription is a sequence.
SourceIsSequence ==
    /\ fs0[args.source].kind = "file"
    /\ fs0[args.source].content.syntax = "ok"
    /\ SourceDocument.t = "map"
    /\ "transcription" \in DOMAIN SourceDocument.m
    /\ SourceDocument.m.transcription.t = "list"

SourceTranscription == SourceDocument.m.transcription.xs

\* The array the destination file holds.
Output == json_loads(fs[args.dest].content).val.xs

\* The speaker name holds a space.
SpeakerHasSpace == \E i \in 1..Len(args.speaker) : args.speaker[i] = " "

(***************************************************************************)
(* C1: a successful convert writes as many entries as the transcription    *)
(* has segments, and entry i carries the offsets of segment i: no segment  *)
(* is dropped, duplicated, merged or reordered.                            *)
(***************************************************************************)
C1_LengthAndOrder ==
    ConvertSucceeded /\ SourceIsSequence =>
        /\ Len(Output) = Len(SourceTranscription)
        /\ \A i \in 1..Len(SourceTranscription) :
             /\ Output[i].m.start_ms = SourceTranscription[i].m.offsets.m.from
             /\ Output[i].m.end_ms = SourceTranscription[i].m.offsets.m.to

C1_Witness ==
    /\ ConvertSucceeded
    /\ SourceIsSequence
    /\ Len(Output) >= 2
    /\ Output[1].m.start_ms # Output[2].m.start_ms

(***************************************************************************)
(* C2: start and end of entry i are the timecodes from and to of segment   *)
(* i with every comma replaced by a period and nothing else changed: the   *)
(* length is kept, no comma is left, a period stands where a comma stood   *)
(* and every other position is as it was.                                  *)
(***************************************************************************)
CommasToPeriods(in, out) ==
    /\ Len(out) = Len(in)
    /\ \A j \in 1..Len(out) : out[j] # ","
    /\ \A j \in 1..Len(in) : IF in[j] = "," THEN out[j] = "." ELSE out[j] = in[j]

C3_CopiedVerbatim ==
    ConvertSucceeded /\ SourceIsSequence =>
        \A i \in 1..Len(SourceTranscription) :
            /\ Output[i].m.start_ms = SourceTranscription[i].m.offsets.m.from
            /\ Output[i].m.end_ms = SourceTranscription[i].m.offsets.m.to
            /\ Output[i].m.text = SourceTranscription[i].m.text

(***************************************************************************)
(* C4: every entry written has the speaker_id passed to convert as its     *)
(* speaker and the speaker name passed as its voice, whatever the segment  *)
(* holds.                                                                  *)
(***************************************************************************)
C4_SpeakerAndVoice ==
    ConvertSucceeded =>
        \A i \in 1..Len(Output) :
            /\ Output[i].m.speaker = Str(args.speaker_id)
            /\ Output[i].m.voice = Str(args.speaker)

C4_Witness ==
    /\ ConvertSucceeded
    /\ Len(Output) >= 2
    /\ Output[1].m.text # Output[2].m.text
    /\ args.speaker_id = <<"1">>

(***************************************************************************)
(* C5: is_valid_whisper_json returns the path, unchanged, exactly when the *)
(* path exists, is readable, its content parses as JSON and the value is a *)
(* mapping with systeminfo, model and transcription present and truthy;    *)
(* otherwise it fails and returns nothing.                                 *)
(***************************************************************************)
ValidatorEnded == pc \in {"validator_returned", "validator_raised"}

\* The required keys are present and truthy in the mapping v.
RequiredKeysTruthy(v) ==
    /\ v.t = "map"
    /\ \A i \in 1..Len(keys) : keys[i] \in DOMAIN v.m /\ Truthy(v.m[keys[i]])

ValidTranscriptFile(f) ==
    /\ f.kind = "file"
    /\ f.perm = "rw"
    /\ json_loads(f.content).ok
    /\ RequiredKeysTruthy(json_loads(f.content).val)

C5_AcceptsExactlyValid ==
    ValidatorEnded =>
        /\ returned \in {"none", args.source}
        /\ returned = args.source <=> ValidTranscriptFile(fs0[args.source])
        /\ returned = "none" <=> pc = "validator_raised"

\* C5 with "parses as JSON" read as load_transcript parses: the text with
\* its newlines removed.  This holds.
C5_AcceptsAfterStripping ==
    ValidatorEnded =>
        /\ returned \in {"none", args.source}
        /\ returned = args.source <=>
              ValidTranscriptFile([fs0[args.source] EXCEPT
                                     !.content = StripNewlines(@)])
        /\ returned = "none" <=> pc = "validator_raised"

(***************************************************************************)
(* C6: a rejection by is_valid_whisper_json reports the kind of its cause: *)
(* NotFound for a path that does not exist, NotReadable for one that       *)
(* cannot be opened and read, ParseError for a text that is no JSON,       *)
(* SchemaError for a document with a required key missing or falsy.        *)
(***************************************************************************)
\* The kind a rejection is reported as: the message of the ValueError and,
\* for the message shared by several causes, the exception wrapped.
ReportedKind(e) ==
    CASE e.msg = "is non-existent" -> "NotFound"
      [] e.msg = "is not readable" -> "NotReadable"
      [] e.msg = "is not a valid JSON whisper.cpp transcript" ->
           IF e.cause = "JSONDecodeError" THEN "ParseError" ELSE "SchemaError"
      [] e.msg = "failed to load" -> "LoadFailure"

\* The kind of the cause, the checks made in the order of the claim; the
\* text is parsed as load_transcript parses it, its newlines removed.
CauseKind(f) ==
    IF f.kind = "absent" THEN "NotFound"
    ELSE IF f.kind = "dir" \/ f.perm # "rw" THEN "NotReadable"
    ELSE IF ~json_loads(StripNewlines(f.content)).ok THEN "ParseError"
    ELSE "SchemaError"

C6_ErrorKinds ==
    pc = "validator_raised" => ReportedKind(err) = CauseKind(fs0[args.source])

(***************************************************************************)
(* C7: when convert fails while reading, parsing or transforming the       *)
(* source, the destination file is as it was before the call; a file is    *)
(* open for writing only once every segment has been transformed.          *)
(***************************************************************************)
C7_NoPartialWrite ==
    /\ ConvertFailedBeforeWriting => fs[args.dest] = fs0[args.dest]
    /\ \A h \in handles :
         h.how = "w" =>
            /\ Transcription(_source).ok
            /\ Len(_target) = Len(Transcription(_source).val)

C7_Witness ==
    /\ ConvertFailedBeforeWriting
    /\ err.msg = "entry"
    /\ idx >= 2
    /\ idx = Len(Transcription(_source).val)
    /\ fs0[args.dest].kind = "file"
    /\ args.dest # args.source

(***************************************************************************)
(* C8: convert fails with a KeyError (MissingField), without reporting     *)
(* success and without writing anything, whenever the parsed document is a *)
(* mapping without transcription, or a segment lacks timestamps, offsets   *)
(* or text, or its timestamps or offsets lack from or to; no entry is ever *)
(* built for such a segment.                                               *)
(***************************************************************************)
\* The sub-object of seg under key, when present, lacks from or to.
NestedLacks(seg, key) ==
    /\ key \in DOMAIN seg.m
    /\ seg.m[key].t = "map"
    /\ {"from", "to"} \ DOMAIN seg.m[key].m # {}

\* The segment lacks a required field.
SegmentLacksField(seg) ==
    /\ seg.t = "map"
    /\ \/ {"timestamps", "offsets", "text"} \ DOMAIN seg.m # {}
       \/ NestedLacks(seg, "timestamps")
       \/ NestedLacks(seg, "offsets")

\* What is present in the segment has the type the source schema gives it.
SegmentWellTyped(seg) ==
    /\ seg.t = "map"
    /\ \A key \in {"timestamps", "offsets"} \cap DOMAIN seg.m :
         seg.m[key].t = "map"
    /\ "timestamps" \in DOMAIN seg.m =>
         \A k \in {"from", "to"} \cap DOMAIN seg.m.timestamps.m :
            seg.m.timestamps.m[k].t = "str"

\* The parsed document is a mapping whose transcription, when present, is a
\* sequence of well-typed segments.
DocumentWellTyped(doc) ==
    /\ doc.t = "map"
    /\ "transcription" \in DOMAIN doc.m =>
         /\ doc.m.transcription.t = "list"
         /\ \A i \in 1..Len(doc.m.transcription.xs) :
              SegmentWellTyped(doc.m.transcription.xs[i])

\* The positions of the segments that lack a field.
LackingSegments(doc) ==
    IF "transcription" \in DOMAIN doc.m
    THEN {i \in 1..Len(doc.m.transcription.xs) :
            SegmentLacksField(doc.m.transcription.xs[i])}
    ELSE {}

ArgumentsRejected ==
    \/ args.source = args.dest
    \/ (Exists(fs0[args.dest]) /\ ~args.force)
    \/ SpeakerHasSpace

NothingDone == caller # "convert" /\ fs = fs0

C9_ExitOne ==
    mode = "cli" =>
        /\ pc = "exited" /\ ArgumentsRejected => exit_code = 1 /\ NothingDone
        /\ pc = "exited" /\ returned = "none" => NothingDone
        /\ fs # fs0 => returned = args.source /\ ~ArgumentsRejected

\* C9 as amended: status 1 when the source has passed validation and a
\* check rejects the arguments; status 2, whatever the other arguments are,
\* when the source fails validation.
C9_ExitOneOnceValidated ==
    mode = "cli" =>
        /\ pc = "exited" /\ returned = args.source /\ ArgumentsRejected =>
              exit_code = 1 /\ NothingDone
        /\ pc = "exited" /\ returned = "none" => exit_code = 2 /\ NothingDone
        /\ fs # fs0 \/ caller = "convert" =>
              returned = args.source /\ ~ArgumentsRejected

C9_Witness ==
    /\ mode = "cli"
    /\ pc = "exited"
    /\ exit_code = 1
    /\ returned = args.source
    /\ args.source # args.dest
    /\ Exists(fs0[args.dest])
    /\ ~args.force
    /\ ~SpeakerHasSpace
    /\ NothingDone

(***************************************************************************)
(* C10: at most one file is open at any time; the source is open, for      *)
(* reading, only while get_json reads it and is closed before parsing      *)
(* starts, also when the read raises; the destination is open, for         *)
(* writing, only after the loop has ended; no file is open once the call   *)
(* has returned or failed; the validator opens nothing for writing.        *)
(***************************************************************************)
C10_OneFileOpen ==
    /\ Cardinality(handles) <= 1
    /\ \A h \in handles :
         \/ h.how = "r" /\ h.path = args.source /\ pc \in {"read", "close"}
         \/ /\ h.how = "w" /\ h.path = args.dest /\ pc \in {"dump", "written"}
            /\ caller = "convert"
    /\ caller = "validator" => fs = fs0

C10_Witness ==
    /\ pc = "json_loads"
    /\ json_data = PyFalse
    /\ fs[args.source].kind = "file"
    /\ fs[args.source].perm = "ioerror"
    /\ handles = {}

====
